---- MODULE Spec2Model ----
(***************************************************************************)
(* A model of src/src/index.ts: class Collection<K, V> extends Map<K, V>.  *)
(*                                                                         *)
(* Objects live in a heap (a function from references to objects), so     *)
(* that an operation that writes to the wrong object, or two references    *)
(* to one object, show up in the model.  A Collection object has the       *)
(* Map's entry list (insertion ordered pairs <<key, value>>) and the two   *)
(* cached arrays _array and _keyArray.                                     *)
(***************************************************************************)
EXTENDS Integers, Sequences, FiniteSets, TLC

VARIABLES heap, last

vars == <<heap, last>>

(***************************************************************************)
(* Bounds of the model.                                                    *)
(***************************************************************************)
MaxKey == 3
MaxVal == 2

Keys == 1..MaxKey
Vals == 1..MaxVal
Pairs == Keys \X Vals

(***************************************************************************)
(* Values of the language.                                                 *)
(***************************************************************************)
\* An array reference slot: null, or an array with its elements.
NullArr == [null |-> TRUE, arr |-> <<>>]
Arr(s) == [null |-> FALSE, arr |-> s]

\* Return values.
Undefined == [kind |-> "undefined"]
RVal(v) == [kind |-> "val", v |-> v]
\* An array handed to the caller: its elements, and which object it is: a new
\* array ("fresh"), or the very array held in a cache field of the collection.
RArr(s) == [kind |-> "arr", arr |-> s, obj |-> "fresh"]
RCached(s, field) == [kind |-> "arr", arr |-> s, obj |-> field]
RBool(b) == [kind |-> "bool", b |-> b]
RNum(n) == [kind |-> "num", n |-> n]
RRef(r) == [kind |-> "ref", ref |-> r]
RThrow(e) == [kind |-> "throw", err |-> e]

Min(a, b) == IF a < b THEN a ELSE b

(***************************************************************************)
(* Map.prototype (ECMAScript): the entry list.                             *)
(***************************************************************************)
\* Position of key k in an entry list, 0 when absent.
RECURSIVE IndexFrom(_, _, _)
IndexFrom(ents, k, i) ==
    IF i > Len(ents) THEN 0
    ELSE IF ents[i][1] = k THEN i
    ELSE IndexFrom(ents, k, i + 1)

Index(ents, k) == IndexFrom(ents, k, 1)

RemoveAt(s, i) == [j \in 1..(Len(s) - 1) |-> IF j < i THEN s[j] ELSE s[j + 1]]

MapSize(h, r) == Len(h[r].entries)

MapHas(h, r, k) == Index(h[r].entries, k) # 0

MapGet(h, r, k) ==
    LET i == Index(h[r].entries, k)
    IN  IF i = 0 THEN Undefined ELSE RVal(h[r].entries[i][2])

\* A set that removes a present key and appends it again.
MapSetMoves(h, r, k, v) ==
    LET i == Index(h[r].entries, k)
    IN  IF i = 0
        THEN [h EXCEPT ![r].entries = Append(@, <<k, v>>)]
        ELSE [h EXCEPT ![r].entries = Append(RemoveAt(@, i), <<k, v>>)]

\* Map.prototype.set: update in place when the key is present, else append.
MapSet(h, r, k, v) ==
    LET i == Index(h[r].entries, k)
    IN  IF i = 0
        THEN [h EXCEPT ![r].entries = Append(@, <<k, v>>)]
        ELSE [h EXCEPT ![r].entries[i] = <<k, v>>]

\* Map.prototype.delete: the heap after, and whether an entry was removed.
MapDelete(h, r, k) ==
    LET i == Index(h[r].entries, k)
    IN  IF i = 0
        THEN [h |-> h, ret |-> RBool(FALSE)]
        ELSE [h |-> [h EXCEPT ![r].entries = RemoveAt(@, i)], ret |-> RBool(TRUE)]

MapClear(h, r) == [h EXCEPT ![r].entries = <<>>]

\* [...this.values()], [...this.keys()], [...this.entries()]
MapValues(h, r) == [i \in 1..Len(h[r].entries) |-> h[r].entries[i][2]]
MapKeys(h, r) == [i \in 1..Len(h[r].entries) |-> h[r].entries[i][1]]
MapEntries(h, r) == h[r].entries

(***************************************************************************)
(* Collection: the mutation primitives and the cached views.               *)
(***************************************************************************)
\* A reset that leaves the value snapshot in place.
ResetKeyCacheOnly(h, r) == [h EXCEPT ![r]._keyArray = NullArr]

\* this._array = null; this._keyArray = null;
ResetCaches(h, r) == [h EXCEPT ![r]._array = NullArr, ![r]._keyArray = NullArr]

Get(h, r, k) == MapGet(h, r, k)

Has(h, r, k) == MapHas(h, r, k)

\* set returns what Map.prototype.set returns: the receiver.
Set(h, r, k, v) == [h |-> MapSet(ResetCaches(h, r), r, k, v), ret |-> RRef(r)]

Delete(h, r, k) == MapDelete(ResetCaches(h, r), r, k)

Clear(h, r) == [h |-> MapClear(h, r), ret |-> Undefined]

\* array(): rebuild when this._array?.length !== this.size; the array returned
\* is the cached array itself.
\* A validity test that looks at null only, not at the length.
ArrayStaleNullOnly(h, r) == h[r]._array.null

ArrayStale(h, r) == h[r]._array.null \/ Len(h[r]._array.arr) # MapSize(h, r)

ArrayOf(h, r) ==
    LET h1 == IF ArrayStale(h, r)
              THEN [h EXCEPT ![r]._array = Arr(MapValues(h, r))]
              ELSE h
    IN  [h |-> h1, ret |-> RCached(h1[r]._array.arr, "_array")]

KeyArrayStale(h, r) == h[r]._keyArray.null \/ Len(h[r]._keyArray.arr) # MapSize(h, r)

KeyArrayOf(h, r) ==
    LET h1 == IF KeyArrayStale(h, r)
              THEN [h EXCEPT ![r]._keyArray = Arr(MapKeys(h, r))]
              ELSE h
    IN  [h |-> h1, ret |-> RCached(h1[r]._keyArray.arr, "_keyArray")]

(***************************************************************************)
(* Caller-supplied functions.  A function value is a record naming the     *)
(* function; the closures that intersect and difference build read the     *)
(* heap.                                                                   *)
(***************************************************************************)
\* Predicates fn(value, key, collection).
Preds == {[kind |-> "valGt", n |-> n] : n \in 0..MaxVal} \cup {[kind |-> "keyGt", n |-> 1]}

CallPred(h, fn, v, k) ==
    CASE fn.kind = "valGt" -> v > fn.n
      [] fn.kind = "keyGt" -> k > fn.n
      [] fn.kind = "has" -> Has(h, fn.ref, k)
      [] fn.kind = "notHas" -> ~Has(h, fn.ref, k)

\* Comparators compareFunction(firstValue, secondValue, firstKey, secondKey).
\* "default" is the default parameter of sort and sorted:
\* Number(x > y) || Number(x === y) - 1.
DefaultCmp == [kind |-> "default"]
Cmps == {DefaultCmp, [kind |-> "valDesc"], [kind |-> "keyDesc"], [kind |-> "zero"]}

CallCmp(fn, av, bv, ak, bk) ==
    CASE fn.kind = "default" -> IF av > bv THEN 1 ELSE (IF av = bv THEN 1 ELSE 0) - 1
      [] fn.kind = "valDesc" -> bv - av
      [] fn.kind = "keyDesc" -> bk - ak
      [] fn.kind = "zero" -> 0

(***************************************************************************)
(* sweep and sort.                                                         *)
(***************************************************************************)
\* for (const [key, val] of this) if (fn(val, key, this)) this.delete(key);
\* The Map iterator walks the live entry list; removing the entry it stands on
\* moves the following entries down by one, so the walk goes on at the same
\* position.
\* A walk that steps on after a removal, as over an array being spliced.
RECURSIVE SweepLoopSkips(_, _, _, _)
SweepLoopSkips(h, r, fn, i) ==
    IF i > MapSize(h, r) THEN h
    ELSE LET e == h[r].entries[i]
         IN  IF CallPred(h, fn, e[2], e[1])
             THEN SweepLoopSkips(Delete(h, r, e[1]).h, r, fn, i + 1)
             ELSE SweepLoopSkips(h, r, fn, i + 1)

RECURSIVE SweepLoop(_, _, _, _)
SweepLoop(h, r, fn, i) ==
    IF i > MapSize(h, r) THEN h
    ELSE LET e == h[r].entries[i]
         IN  IF CallPred(h, fn, e[2], e[1])
             THEN SweepLoop(Delete(h, r, e[1]).h, r, fn, i)
             ELSE SweepLoop(h, r, fn, i + 1)

Sweep(h, r, fn) ==
    LET previousSize == MapSize(h, r)
        h1 == SweepLoop(h, r, fn, 1)
    IN  [h |-> h1, ret |-> RNum(previousSize - MapSize(h1, r))]

\* Array.prototype.sort on an array of entries (ECMAScript 2019: stable).
\* e is placed behind every element that does not compare greater than it.
\* An insertion that also passes the elements that compare equal.
RECURSIVE InsertSortedUnstable(_, _, _)
InsertSortedUnstable(s, e, fn) ==
    IF s = <<>> THEN <<e>>
    ELSE LET x == s[Len(s)]
         IN  IF CallCmp(fn, x[2], e[2], x[1], e[1]) >= 0
             THEN Append(InsertSortedUnstable(SubSeq(s, 1, Len(s) - 1), e, fn), x)
             ELSE Append(s, e)

RECURSIVE InsertSorted(_, _, _)
InsertSorted(s, e, fn) ==
    IF s = <<>> THEN <<e>>
    ELSE LET x == s[Len(s)]
         IN  IF CallCmp(fn, x[2], e[2], x[1], e[1]) > 0
             THEN Append(InsertSorted(SubSeq(s, 1, Len(s) - 1), e, fn), x)
             ELSE Append(s, e)

RECURSIVE SortEntries(_, _)
SortEntries(s, fn) ==
    IF s = <<>> THEN <<>>
    ELSE InsertSorted(SortEntries(SubSeq(s, 1, Len(s) - 1), fn), s[Len(s)], fn)

\* for (const [k, v] of entries) super.set(k, v);
RECURSIVE MapSetAll(_, _, _, _)
MapSetAll(h, r, ents, i) ==
    IF i > Len(ents) THEN h
    ELSE MapSetAll(MapSet(h, r, ents[i][1], ents[i][2]), r, ents, i + 1)

\* A sort that leaves both snapshots in place.
SortKeepsCaches(h, r, fn) ==
    [h |-> MapSetAll(MapClear(h, r), r, SortEntries(h[r].entries, fn), 1), ret |-> RRef(r)]

\* entries.sort(...); super.clear(); both fields set to null; super.set for each
Sort(h, r, fn) ==
    LET entries == SortEntries(h[r].entries, fn)
        h1 == ResetCaches(MapClear(h, r), r)
    IN  [h |-> MapSetAll(h1, r, entries, 1), ret |-> RRef(r)]

(***************************************************************************)
(* Positional and random access.  An amount is absent or an integer.       *)
(***************************************************************************)
NoAmount == [given |-> FALSE, n |-> 0]
Amount(n) == [given |-> TRUE, n |-> n]

Max(a, b) == IF a > b THEN a ELSE b

\* arr.slice(-amount) for amount > 0
SliceLastFromHead(arr, amount) == SubSeq(arr, 1, Min(amount, Len(arr)))

SliceLast(arr, amount) == SubSeq(arr, Max(Len(arr) - amount, 0) + 1, Len(arr))

\* Array.from({ length: amount }, () => iter.next().value)
TakeFirst(s, amount) == SubSeq(s, 1, amount)

RECURSIVE First(_, _, _)
RECURSIVE Last(_, _, _)
\* A first that counts a negative amount from the head as well.
FirstFromHeadOnly(h, r, a) ==
    IF ~a.given
    THEN [h |-> h, ret |-> IF MapSize(h, r) = 0 THEN Undefined ELSE RVal(MapValues(h, r)[1])]
    ELSE [h |-> h, ret |-> RArr(TakeFirst(MapValues(h, r), Min(MapSize(h, r), Max(a.n, a.n * (-1)))))]

First(h, r, a) ==
    IF ~a.given
    THEN [h |-> h, ret |-> IF MapSize(h, r) = 0 THEN Undefined ELSE RVal(MapValues(h, r)[1])]
    ELSE IF a.n < 0 THEN Last(h, r, Amount(a.n * (-1)))
    ELSE [h |-> h, ret |-> RArr(TakeFirst(MapValues(h, r), Min(MapSize(h, r), a.n)))]

Last(h, r, a) ==
    LET c == ArrayOf(h, r)
        arr == c.ret.arr
    IN  IF ~a.given
        THEN [h |-> c.h, ret |-> IF Len(arr) = 0 THEN Undefined ELSE RVal(arr[Len(arr)])]
        ELSE IF a.n < 0 THEN First(c.h, r, Amount(a.n * (-1)))
        ELSE IF a.n = 0 THEN [h |-> c.h, ret |-> RArr(<<>>)]
        ELSE [h |-> c.h, ret |-> RArr(SliceLast(arr, a.n))]

RECURSIVE FirstKey(_, _, _)
RECURSIVE LastKey(_, _, _)
FirstKey(h, r, a) ==
    IF ~a.given
    THEN [h |-> h, ret |-> IF MapSize(h, r) = 0 THEN Undefined ELSE RVal(MapKeys(h, r)[1])]
    ELSE IF a.n < 0 THEN LastKey(h, r, Amount(a.n * (-1)))
    ELSE [h |-> h, ret |-> RArr(TakeFirst(MapKeys(h, r), Min(MapSize(h, r), a.n)))]

LastKey(h, r, a) ==
    LET c == KeyArrayOf(h, r)
        arr == c.ret.arr
    IN  IF ~a.given
        THEN [h |-> c.h, ret |-> IF Len(arr) = 0 THEN Undefined ELSE RVal(arr[Len(arr)])]
        ELSE IF a.n < 0 THEN FirstKey(c.h, r, Amount(a.n * (-1)))
        ELSE IF a.n = 0 THEN [h |-> c.h, ret |-> RArr(<<>>)]
        ELSE [h |-> c.h, ret |-> RArr(SliceLast(arr, a.n))]

\* Array.from({ length: n }, () => arr.splice(Math.floor(Math.random() * arr.length), 1)[0])
\* on the copy arr: every sequence the random source can produce.  A negative
\* length makes an empty array.
\* A sampling that does not take the chosen element out of the copy.
RECURSIVE SplicesWithReplacement(_, _)
SplicesWithReplacement(arr, n) ==
    IF n <= 0 THEN {<<>>}
    ELSE UNION {{<<arr[i]>> \o t : t \in SplicesWithReplacement(arr, n - 1)} : i \in 1..Len(arr)}

RECURSIVE Splices(_, _)
Splices(arr, n) ==
    IF n <= 0 THEN {<<>>}
    ELSE UNION {{<<arr[i]>> \o t : t \in Splices(RemoveAt(arr, i), n - 1)} : i \in 1..Len(arr)}

\* The outcomes of random / randomKey on the array the view call returned.
RandomFrom(c, a) ==
    LET arr == c.ret.arr
    IN  IF ~a.given
        THEN IF Len(arr) = 0
             THEN {[h |-> c.h, ret |-> Undefined]}
             ELSE {[h |-> c.h, ret |-> RVal(arr[i])] : i \in 1..Len(arr)}
        ELSE IF Len(arr) = 0 \/ a.n = 0
        THEN {[h |-> c.h, ret |-> RArr(<<>>)]}
        ELSE {[h |-> c.h, ret |-> RArr(t)] : t \in Splices(arr, Min(a.n, Len(arr)))}

Random(h, r, a) == RandomFrom(ArrayOf(h, r), a)

RandomKey(h, r, a) == RandomFrom(KeyArrayOf(h, r), a)

(***************************************************************************)
(* reduce.                                                                 *)
(***************************************************************************)
\* Accumulator functions fn(accumulator, value, key, collection).
Reducers == {[kind |-> "sum"], [kind |-> "shift"], [kind |-> "keep"]}

CallReducer(fn, acc, v, k) ==
    CASE fn.kind = "sum" -> acc + v
      [] fn.kind = "shift" -> 2 * acc + v
      [] fn.kind = "keep" -> acc

NoInit == [given |-> FALSE, v |-> 0]
InitVal(v) == [given |-> TRUE, v |-> v]

\* for (const [key, val] of this) accumulator = fn(accumulator, val, key, this);
RECURSIVE ReduceFrom(_, _, _, _)
ReduceFrom(ents, fn, acc, i) ==
    IF i > Len(ents) THEN acc
    ELSE ReduceFrom(ents, fn, CallReducer(fn, acc, ents[i][2], ents[i][1]), i + 1)

\* The second loop: the first entry seeds the accumulator.  The result is the
\* pair of the flag first and the accumulator.
\* A seeding loop without the continue: the first entry is folded as well.
RECURSIVE ReduceSeedNoContinue(_, _, _, _, _)
ReduceSeedNoContinue(ents, fn, first, acc, i) ==
    IF i > Len(ents) THEN [first |-> first, acc |-> acc]
    ELSE IF first THEN ReduceSeedNoContinue(ents, fn, FALSE, ents[i][2], i)
    ELSE ReduceSeedNoContinue(ents, fn, first, CallReducer(fn, acc, ents[i][2], ents[i][1]), i + 1)

RECURSIVE ReduceSeed(_, _, _, _, _)
ReduceSeed(ents, fn, first, acc, i) ==
    IF i > Len(ents) THEN [first |-> first, acc |-> acc]
    ELSE IF first THEN ReduceSeed(ents, fn, FALSE, ents[i][2], i + 1)
    ELSE ReduceSeed(ents, fn, first, CallReducer(fn, acc, ents[i][2], ents[i][1]), i + 1)

Reduce(h, r, fn, init) ==
    IF init.given
    THEN [h |-> h, ret |-> RVal(ReduceFrom(h[r].entries, fn, init.v, 1))]
    ELSE LET l == ReduceSeed(h[r].entries, fn, TRUE, 0, 1)
         IN  IF l.first
             THEN [h |-> h, ret |-> RThrow("TypeError")]
             ELSE [h |-> h, ret |-> RVal(l.acc)]

(***************************************************************************)
(* Construction.  A new object takes the first unused reference.  Classes: *)
(* Collection itself and a subclass of it; Symbol.species is inherited     *)
(* from Map, whose getter returns the constructor it is read from.         *)
(***************************************************************************)
Roots == {"this", "other"}
Temps == <<"t1", "t2", "t3", "t4", "t5", "t6", "t7", "t8", "t9">>
Classes == {"Collection", "SubCollection"}

Fresh(h) == Temps[CHOOSE i \in 1..Len(Temps) :
                    Temps[i] \notin DOMAIN h /\ \A j \in 1..(i - 1) : Temps[j] \in DOMAIN h]

\* this.constructor[Symbol.species]
Species(h, r) == h[r].cls

\* A construction that keeps the first value of a repeated key.
RECURSIVE SetAllFirstWins(_, _, _, _)
SetAllFirstWins(h, r, ents, i) ==
    IF i > Len(ents) THEN h
    ELSE IF Has(h, r, ents[i][1])
         THEN SetAllFirstWins(h, r, ents, i + 1)
         ELSE SetAllFirstWins(Set(h, r, ents[i][1], ents[i][2]).h, r, ents, i + 1)

\* for each pair of the iterable: this.set(key, value), the overridden set
RECURSIVE SetAll(_, _, _, _)
SetAll(h, r, ents, i) ==
    IF i > Len(ents) THEN h
    ELSE SetAll(Set(h, r, ents[i][1], ents[i][2]).h, r, ents, i + 1)

\* new cls(entries): super(entries) adds every pair with this.set, then both
\* cache fields are defined with value null.  (Before that the fields are
\* undefined; set writes null to them and array() reads them with ?., so the
\* model makes no difference between undefined and null.)
Construct(h, r, cls, ents) ==
    LET h0 == h @@ (r :> [cls |-> cls, entries |-> <<>>, _array |-> NullArr, _keyArray |-> NullArr])
    IN  ResetCaches(SetAll(h0, r, ents, 1), r)

\* new this.constructor[Symbol.species](entries): the heap and the new reference
NewSpecies(h, r, ents) ==
    LET n == Fresh(h)
    IN  [h |-> Construct(h, n, Species(h, r), ents), ret |-> RRef(n)]

(***************************************************************************)
(* Combinators that build collections.                                     *)
(***************************************************************************)
\* for (const [key, val] of this) if (fn(val, key, this)) results.set(key, val);
RECURSIVE FilterLoop(_, _, _, _, _)
FilterLoop(h, r, res, fn, i) ==
    IF i > MapSize(h, r) THEN h
    ELSE LET e == h[r].entries[i]
         IN  IF CallPred(h, fn, e[2], e[1])
             THEN FilterLoop(Set(h, res, e[1], e[2]).h, r, res, fn, i + 1)
             ELSE FilterLoop(h, r, res, fn, i + 1)

Filter(h, r, fn) ==
    LET n == NewSpecies(h, r, <<>>)
    IN  [h |-> FilterLoop(n.h, r, n.ret.ref, fn, 1), ret |-> n.ret]

RECURSIVE PartitionLoop(_, _, _, _, _, _)
PartitionLoop(h, r, yes, no, fn, i) ==
    IF i > MapSize(h, r) THEN h
    ELSE LET e == h[r].entries[i]
         IN  IF CallPred(h, fn, e[2], e[1])
             THEN PartitionLoop(Set(h, yes, e[1], e[2]).h, r, yes, no, fn, i + 1)
             ELSE PartitionLoop(Set(h, no, e[1], e[2]).h, r, yes, no, fn, i + 1)

Partition(h, r, fn) ==
    LET a == NewSpecies(h, r, <<>>)
        b == NewSpecies(a.h, r, <<>>)
    IN  [h |-> PartitionLoop(b.h, r, a.ret.ref, b.ret.ref, fn, 1),
         ret |-> [kind |-> "refs", refs |-> <<a.ret.ref, b.ret.ref>>]]

\* A clone that hands back the receiver itself.
CloneShares(h, r) == [h |-> h, ret |-> RRef(r)]

\* new this.constructor[Symbol.species](this): the constructor iterates this
Clone(h, r) == NewSpecies(h, r, MapEntries(h, r))

\* A concatenation that keeps the value a key already has.
RECURSIVE ConcatOneKeepsOld(_, _, _, _)
ConcatOneKeepsOld(h, newColl, coll, i) ==
    IF i > MapSize(h, coll) THEN h
    ELSE IF Has(h, newColl, h[coll].entries[i][1])
         THEN ConcatOneKeepsOld(h, newColl, coll, i + 1)
         ELSE ConcatOneKeepsOld(Set(h, newColl, h[coll].entries[i][1], h[coll].entries[i][2]).h,
                                newColl, coll, i + 1)

\* for (const [key, val] of coll) newColl.set(key, val);
RECURSIVE ConcatOne(_, _, _, _)
ConcatOne(h, newColl, coll, i) ==
    IF i > MapSize(h, coll) THEN h
    ELSE ConcatOne(Set(h, newColl, h[coll].entries[i][1], h[coll].entries[i][2]).h,
                   newColl, coll, i + 1)

\* for (const coll of collections) ...
RECURSIVE ConcatAll(_, _, _, _)
ConcatAll(h, newColl, collections, j) ==
    IF j > Len(collections) THEN h
    ELSE ConcatAll(ConcatOne(h, newColl, collections[j], 1), newColl, collections, j + 1)

Concat(h, r, collections) ==
    LET newColl == Clone(h, r)
    IN  [h |-> ConcatAll(newColl.h, newColl.ret.ref, collections, 1), ret |-> newColl.ret]

\* An intersection that filters the receiver instead of the argument.
IntersectFromReceiver(h, r, other) == Filter(h, r, [kind |-> "has", ref |-> other])

\* other.filter((_, k) => this.has(k))
Intersect(h, r, other) == Filter(h, other, [kind |-> "has", ref |-> r])

\* A difference that starts from the receiver's own entries.
DifferenceReceiverFirst(h, r, other) ==
    LET a == Filter(h, r, [kind |-> "notHas", ref |-> other])
        b == Filter(a.h, other, [kind |-> "notHas", ref |-> r])
    IN  Concat(b.h, a.ret.ref, <<b.ret.ref>>)

\* other.filter((_, k) => !this.has(k)).concat(this.filter((_, k) => !other.has(k)))
Difference(h, r, other) ==
    LET a == Filter(h, other, [kind |-> "notHas", ref |-> r])
        b == Filter(a.h, r, [kind |-> "notHas", ref |-> other])
    IN  Concat(b.h, a.ret.ref, <<b.ret.ref>>)

\* A sorted that sorts the receiver itself.
SortedInPlace(h, r, fn) == Sort(h, r, fn)

\* new this.constructor[Symbol.species]([...this.entries()]).sort(...)
Sorted(h, r, fn) ==
    LET n == NewSpecies(h, r, MapEntries(h, r))
    IN  Sort(n.h, n.ret.ref, fn)

\* for (const [key, value] of this)
\*     if (!collection.has(key) || value !== collection.get(key)) return false;
RECURSIVE EqualsLoop(_, _, _, _)
EqualsLoop(h, r, collection, i) ==
    IF i > MapSize(h, r) THEN TRUE
    ELSE LET e == h[r].entries[i]
         IN  IF ~Has(h, collection, e[1]) \/ RVal(e[2]) # Get(h, collection, e[1])
             THEN FALSE
             ELSE EqualsLoop(h, r, collection, i + 1)

\* The argument is a reference or null.
NullRef == "null"

\* An equality that does not compare the sizes.
EqualsNoSizeTest(h, r, collection) ==
    [h |-> h,
     ret |-> RBool(IF collection = NullRef THEN FALSE
                   ELSE IF r = collection THEN TRUE
                   ELSE EqualsLoop(h, r, collection, 1))]

Equals(h, r, collection) ==
    [h |-> h,
     ret |-> RBool(IF collection = NullRef THEN FALSE
                   ELSE IF r = collection THEN TRUE
                   ELSE IF MapSize(h, r) # MapSize(h, collection) THEN FALSE
                   ELSE EqualsLoop(h, r, collection, 1))]

(***************************************************************************)
(* map, mapValues, flatMap and the searches.                               *)
(***************************************************************************)
\* Mapping functions fn(value, key, collection): to a number, or to a new
\* Collection ("single": [[key, value]]; "withOne": [[key, value], [1, value]]).
Mappers == {[kind |-> "double"], [kind |-> "key"]}
CollMappers == {[kind |-> "single"], [kind |-> "withOne"]}

\* The heap after the call and the value returned (a number, or a reference).
CallMapper(h, fn, v, k) ==
    CASE fn.kind = "double" -> [h |-> h, ret |-> 2 * v]
      [] fn.kind = "key" -> [h |-> h, ret |-> k]
      [] fn.kind = "single" ->
            LET n == Fresh(h)
            IN  [h |-> Construct(h, n, "Collection", <<(<<k, v>>)>>), ret |-> n]
      [] fn.kind = "withOne" ->
            LET n == Fresh(h)
            IN  [h |-> Construct(h, n, "Collection", <<(<<k, v>>), (<<1, v>>)>>), ret |-> n]

\* Array.from({ length: this.size }, () => { [key, value] = iter.next().value; fn(...) })
RECURSIVE MapLoop(_, _, _, _, _, _)
MapLoop(h, r, fn, i, length, out) ==
    IF i > length THEN [h |-> h, ret |-> RArr(out)]
    ELSE LET e == h[r].entries[i]
             c == CallMapper(h, fn, e[2], e[1])
         IN  MapLoop(c.h, r, fn, i + 1, length, Append(out, c.ret))

Map(h, r, fn) == MapLoop(h, r, fn, 1, MapSize(h, r), <<>>)

\* for (const [key, val] of this) coll.set(key, fn(val, key, this));
RECURSIVE MapValuesLoop(_, _, _, _, _)
MapValuesLoop(h, r, coll, fn, i) ==
    IF i > MapSize(h, r) THEN h
    ELSE LET e == h[r].entries[i]
             c == CallMapper(h, fn, e[2], e[1])
         IN  MapValuesLoop(Set(c.h, coll, e[1], c.ret).h, r, coll, fn, i + 1)

MapValuesOf(h, r, fn) ==
    LET n == NewSpecies(h, r, <<>>)
    IN  [h |-> MapValuesLoop(n.h, r, n.ret.ref, fn, 1), ret |-> n.ret]

\* (new this.constructor[Symbol.species]()).concat(...this.map(fn, thisArg))
FlatMap(h, r, fn) ==
    LET collections == Map(h, r, fn)
        n == NewSpecies(collections.h, r, <<>>)
    IN  Concat(n.h, n.ret.ref, collections.ret.arr)

\* The position of the first entry fn holds of, 0 when there is none.
RECURSIVE FindLoop(_, _, _, _)
FindLoop(h, r, fn, i) ==
    IF i > MapSize(h, r) THEN 0
    ELSE IF CallPred(h, fn, h[r].entries[i][2], h[r].entries[i][1]) THEN i
    ELSE FindLoop(h, r, fn, i + 1)

Find(h, r, fn) ==
    LET i == FindLoop(h, r, fn, 1)
    IN  [h |-> h, ret |-> IF i = 0 THEN Undefined ELSE RVal(h[r].entries[i][2])]

FindKey(h, r, fn) ==
    LET i == FindLoop(h, r, fn, 1)
    IN  [h |-> h, ret |-> IF i = 0 THEN Undefined ELSE RVal(h[r].entries[i][1])]

Some(h, r, fn) == [h |-> h, ret |-> RBool(FindLoop(h, r, fn, 1) # 0)]

\* for (const [key, val] of this) if (!fn(val, key, this)) return false;
RECURSIVE EveryLoop(_, _, _, _)
EveryLoop(h, r, fn, i) ==
    IF i > MapSize(h, r) THEN TRUE
    ELSE IF ~CallPred(h, fn, h[r].entries[i][2], h[r].entries[i][1]) THEN FALSE
    ELSE EveryLoop(h, r, fn, i + 1)

Every(h, r, fn) == [h |-> h, ret |-> RBool(EveryLoop(h, r, fn, 1))]

(***************************************************************************)
(* The state machine.  heap holds the collections the caller keeps; last   *)
(* is the call that has just returned: its name, receiver and argument,    *)
(* the heap before it, and what it returned.  A collection an operation    *)
(* built and returned is recorded by value.  The caller takes the result   *)
(* (Return) before the next call.                                          *)
(***************************************************************************)
NoHeap == [x \in {} |-> 0]
Idle == [op |-> "none"]

\* What the caller sees of a returned value: a reference to an object the
\* caller does not hold yet is shown as that object.
Observe(h, ret) ==
    CASE ret.kind = "ref" /\ ret.ref \notin DOMAIN heap -> [kind |-> "coll", obj |-> h[ret.ref]]
      [] ret.kind = "refs" -> [kind |-> "colls", objs |-> [i \in 1..Len(ret.refs) |-> h[ret.refs[i]]]]
      [] OTHER -> ret

\* No call is under way.
Ready == last.op = "none"

Call(op, r, arg, res) ==
    /\ heap' = [x \in DOMAIN heap |-> res.h[x]]
    /\ last' = [op |-> op, recv |-> r, arg |-> arg, pre |-> heap, ret |-> Observe(res.h, res.ret)]

Return ==
    /\ last.op # "none"
    /\ last' = Idle
    /\ UNCHANGED heap

SetOp == Ready /\ \E r \in DOMAIN heap, k \in Keys, v \in Vals : Call("set", r, <<k, v>>, Set(heap, r, k, v))
DeleteOp == Ready /\ \E r \in DOMAIN heap, k \in Keys : Call("delete", r, k, Delete(heap, r, k))
ClearOp == Ready /\ \E r \in DOMAIN heap : Call("clear", r, <<>>, Clear(heap, r))
SortOp == Ready /\ \E r \in DOMAIN heap, fn \in Cmps : Call("sort", r, fn, Sort(heap, r, fn))
SweepOp == Ready /\ \E r \in DOMAIN heap, fn \in Preds : Call("sweep", r, fn, Sweep(heap, r, fn))
ArrayOp == Ready /\ \E r \in DOMAIN heap : Call("array", r, <<>>, ArrayOf(heap, r))
KeyArrayOp == Ready /\ \E r \in DOMAIN heap : Call("keyArray", r, <<>>, KeyArrayOf(heap, r))
GetOp == Ready /\ \E r \in DOMAIN heap, k \in Keys : Call("get", r, k, [h |-> heap, ret |-> Get(heap, r, k)])
HasOp == Ready /\ \E r \in DOMAIN heap, k \in Keys : Call("has", r, k, [h |-> heap, ret |-> RBool(Has(heap, r, k))])

Inits == {NoInit} \cup {InitVal(v) : v \in 0..1}
ReduceOp == Ready /\ \E r \in DOMAIN heap, fn \in Reducers, init \in Inits :
                Call("reduce", r, <<fn, init>>, Reduce(heap, r, fn, init))

\* A new Collection().
Init ==
    /\ heap = Construct(NoHeap, "this", "Collection", <<>>)
    /\ last = Idle

Next ==
    \/ SetOp
    \/ DeleteOp
    \/ ClearOp
    \/ SortOp
    \/ SweepOp
    \/ ArrayOp
    \/ KeyArrayOp
    \/ GetOp
    \/ HasOp
    \/ ReduceOp
    \/ Return

Spec == Init /\ [][Next]_vars

(***************************************************************************)
(* Positional and random reads, and a caller that writes into an array it  *)
(* was handed.                                                             *)
(***************************************************************************)
Amounts == {NoAmount} \cup {Amount(n) : n \in (0 - MaxKey - 1)..(MaxKey + 1)}

FirstOp == Ready /\ \E r \in DOMAIN heap, a \in Amounts : Call("first", r, a, First(heap, r, a))
FirstKeyOp == Ready /\ \E r \in DOMAIN heap, a \in Amounts : Call("firstKey", r, a, FirstKey(heap, r, a))
LastOp == Ready /\ \E r \in DOMAIN heap, a \in Amounts : Call("last", r, a, Last(heap, r, a))
LastKeyOp == Ready /\ \E r \in DOMAIN heap, a \in Amounts : Call("lastKey", r, a, LastKey(heap, r, a))
RandomOp == Ready /\ \E r \in DOMAIN heap, a \in Amounts :
                \E res \in Random(heap, r, a) : Call("random", r, a, res)
RandomKeyOp == Ready /\ \E r \in DOMAIN heap, a \in Amounts :
                   \E res \in RandomKey(heap, r, a) : Call("randomKey", r, a, res)

NextPos ==
    \/ SetOp
    \/ DeleteOp
    \/ ClearOp
    \/ ArrayOp
    \/ KeyArrayOp
    \/ FirstOp
    \/ FirstKeyOp
    \/ LastOp
    \/ LastKeyOp
    \/ RandomOp
    \/ RandomKeyOp
    \/ Return

SpecPos == Init /\ [][NextPos]_vars

\* The caller swaps two elements of the array the last call returned (a
\* reorder in place that keeps the length).  When that array is the one a
\* cache field holds, the field sees the write.
Swapped(arr, i, j) == [arr EXCEPT ![i] = arr[j], ![j] = arr[i]]

CallerWrites(arr) == {Swapped(arr, i, j) : i, j \in 1..Len(arr)}

CallerWrite ==
    /\ last.op \notin {"none", "callerWrite"}
    /\ last.ret.kind = "arr"
    /\ \E new \in CallerWrites(last.ret.arr) :
          /\ new # last.ret.arr
          /\ last' = [last EXCEPT !.op = "callerWrite", !.ret.arr = new]
          /\ heap' = CASE last.ret.obj = "_array" -> [heap EXCEPT ![last.recv]._array.arr = new]
                       [] last.ret.obj = "_keyArray" -> [heap EXCEPT ![last.recv]._keyArray.arr = new]
                       [] OTHER -> heap

NextCaller ==
    \/ NextPos
    \/ CallerWrite

SpecCaller == Init /\ [][NextCaller]_vars

(***************************************************************************)
(* Two collections and the combinators.                                    *)
(***************************************************************************)
CombMaxKey == 2
CombMaxVal == 2
MaxInput == 2

CombPairs == (1..CombMaxKey) \X (1..CombMaxVal)
Inputs == UNION {[1..n -> CombPairs] : n \in 0..MaxInput}

\* The argument lists of concat.
ArgLists == UNION {[1..n -> DOMAIN heap] : n \in 0..2}

FilterOp == Ready /\ \E fn \in Preds : Call("filter", "this", fn, Filter(heap, "this", fn))
PartitionOp == Ready /\ \E fn \in Preds : Call("partition", "this", fn, Partition(heap, "this", fn))
MapOp == Ready /\ \E fn \in Mappers : Call("map", "this", fn, Map(heap, "this", fn))
MapValuesOp == Ready /\ \E fn \in Mappers : Call("mapValues", "this", fn, MapValuesOf(heap, "this", fn))
FlatMapOp == Ready /\ \E fn \in CollMappers : Call("flatMap", "this", fn, FlatMap(heap, "this", fn))
FindOp == Ready /\ \E fn \in Preds : Call("find", "this", fn, Find(heap, "this", fn))
FindKeyOp == Ready /\ \E fn \in Preds : Call("findKey", "this", fn, FindKey(heap, "this", fn))
SomeOp == Ready /\ \E fn \in Preds : Call("some", "this", fn, Some(heap, "this", fn))
EveryOp == Ready /\ \E fn \in Preds : Call("every", "this", fn, Every(heap, "this", fn))
CloneOp == Ready /\ Call("clone", "this", <<>>, Clone(heap, "this"))
ConcatOp == Ready /\ \E cs \in ArgLists : Call("concat", "this", cs, Concat(heap, "this", cs))
EqualsOp == Ready /\ \E o \in DOMAIN heap \cup {NullRef} : Call("equals", "this", o, Equals(heap, "this", o))
IntersectOp == Ready /\ \E o \in DOMAIN heap : Call("intersect", "this", o, Intersect(heap, "this", o))
DifferenceOp == Ready /\ \E o \in DOMAIN heap : Call("difference", "this", o, Difference(heap, "this", o))
SortedOp == Ready /\ \E fn \in Cmps : Call("sorted", "this", fn, Sorted(heap, "this", fn))

\* new Collection(a) and new Collection(b)
InitComb ==
    /\ \E a, b \in Inputs :
          heap = Construct(Construct(NoHeap, "this", "Collection", a), "other", "Collection", b)
    /\ last = Idle

NextComb ==
    \/ FilterOp
    \/ PartitionOp
    \/ MapOp
    \/ MapValuesOp
    \/ FlatMapOp
    \/ CloneOp
    \/ ConcatOp
    \/ EqualsOp
    \/ IntersectOp
    \/ DifferenceOp
    \/ SortedOp
    \/ Return

SpecComb == InitComb /\ [][NextComb]_vars

\* The same with the lookups, the searches and reduce, and with the snapshots
\* of both collections built by array() and keyArray() calls.
NextFrame ==
    \/ NextComb
    \/ FindOp
    \/ FindKeyOp
    \/ SomeOp
    \/ EveryOp
    \/ GetOp
    \/ HasOp
    \/ ReduceOp
    \/ ArrayOp
    \/ KeyArrayOp

SpecFrame == InitComb /\ [][NextFrame]_vars

\* A collection built from pairs with distinct keys and one built from the same
\* pairs in the opposite order, with first and last called on either.
SymInputs ==
    {p \in UNION {[1..n -> Pairs] : n \in 0..MaxKey} :
        \A i, j \in 1..Len(p) : p[i][1] = p[j][1] => i = j}

InitSym ==
    /\ \E p \in SymInputs :
          heap = Construct(Construct(NoHeap, "this", "Collection", p),
                           "other", "Collection", [i \in 1..Len(p) |-> p[Len(p) + 1 - i]])
    /\ last = Idle

NextSym ==
    \/ FirstOp
    \/ LastOp
    \/ Return

SpecSym == InitSym /\ [][NextSym]_vars

\* A receiver and an argument of either class, the base class or a subclass
\* that inherits Symbol.species, and the combinators that build collections.
InitSpecies ==
    /\ \E a, b \in Inputs, ca, cb \in Classes :
          heap = Construct(Construct(NoHeap, "this", ca, a), "other", cb, b)
    /\ last = Idle

NextSpecies ==
    \/ FilterOp
    \/ PartitionOp
    \/ MapValuesOp
    \/ FlatMapOp
    \/ CloneOp
    \/ ConcatOp
    \/ IntersectOp
    \/ DifferenceOp
    \/ SortedOp
    \/ Return

SpecSpecies == InitSpecies /\ [][NextSpecies]_vars

\* The constructor's argument: absent (or null), or a sequence of pairs, where
\* a key may come more than once.
MaxNewInput == 3
NoEntries == [given |-> FALSE, ents |-> <<>>]
Entries(ents) == [given |-> TRUE, ents |-> ents]
NewInputs == {NoEntries} \cup {Entries(e) : e \in UNION {[1..n -> Pairs] : n \in 0..MaxNewInput}}

\* new Collection(entries): super(entries) adds nothing for an absent argument.
New(h, cls, entries) ==
    LET n == Fresh(h)
    IN  [h |-> Construct(h, n, cls, IF entries.given THEN entries.ents ELSE <<>>), ret |-> RRef(n)]

NewOp == Ready /\ \E entries \in NewInputs : Call("new", "this", entries, New(heap, "Collection", entries))

NextNew ==
    \/ NewOp
    \/ Return

SpecNew == Init /\ [][NextNew]_vars

\* One collection under every mutation and every read that goes through a
\* snapshot.
NextViews ==
    \/ SetOp
    \/ DeleteOp
    \/ ClearOp
    \/ SortOp
    \/ SweepOp
    \/ ArrayOp
    \/ KeyArrayOp
    \/ LastOp
    \/ LastKeyOp
    \/ RandomOp
    \/ RandomKeyOp
    \/ Return

SpecViews == Init /\ [][NextViews]_vars

(***************************************************************************)
(* Properties.  They speak of the call that has just returned: PreEnts and *)
(* PostEnts are the receiver's entries before and after it.                *)
(***************************************************************************)
Called(op) == last.op = op
PreObj == last.pre[last.recv]
PostObj == heap[last.recv]
PreEnts == PreObj.entries
PostEnts == PostObj.entries
ValuesOf(ents) == [i \in 1..Len(ents) |-> ents[i][2]]
KeysOf(ents) == [i \in 1..Len(ents) |-> ents[i][1]]
CachesNull(o) == o._array.null /\ o._keyArray.null

\* C1: array() and keyArray() return a sequence whose length is the current
\* size and whose content is the current values (keys) in insertion order,
\* whatever calls came before.
C1_CacheCoherence ==
    /\ Called("array") =>
          /\ Len(last.ret.arr) = Len(PostEnts)
          /\ last.ret.arr = ValuesOf(PostEnts)
    /\ Called("keyArray") =>
          /\ Len(last.ret.arr) = Len(PostEnts)
          /\ last.ret.arr = KeysOf(PostEnts)

\* array() rebuilt the snapshot over one that was built earlier and had
\* gone out of date.
C1_Witness ==
    /\ Called("array")
    /\ ~PreObj._array.null
    /\ PreObj._array.arr # last.ret.arr

\* C2: a snapshot that is present has the length of the current size and
\* holds the current values (keys) in insertion order; in particular after
\* clear() the size is 0 and no snapshot built before the clear is left.
C2_SnapshotsCurrent ==
    \A r \in DOMAIN heap :
        /\ ~heap[r]._array.null => heap[r]._array.arr = ValuesOf(heap[r].entries)
        /\ ~heap[r]._keyArray.null => heap[r]._keyArray.arr = KeysOf(heap[r].entries)

\* C3: keys are unique; set on an absent key appends; set on a present key
\* replaces that entry's value in place; both snapshots are discarded and the
\* receiver is returned.
UniqueKeys(ents) == \A i, j \in 1..Len(ents) : ents[i][1] = ents[j][1] => i = j

C3_SetKeepsPositions ==
    /\ \A r \in DOMAIN heap : UniqueKeys(heap[r].entries)
    /\ Called("set") =>
          LET k == last.arg[1]
              v == last.arg[2]
              at == {i \in 1..Len(PreEnts) : PreEnts[i][1] = k}
          IN  /\ at = {} => PostEnts = Append(PreEnts, <<k, v>>)
              /\ \A i \in at :
                    /\ Len(PostEnts) = Len(PreEnts)
                    /\ PostEnts[i] = <<k, v>>
                    /\ \A j \in 1..Len(PreEnts) : j # i => PostEnts[j] = PreEnts[j]
              /\ CachesNull(PostObj)
              /\ last.ret = RRef(last.recv)

\* set gave a new value to a key that is not the last entry.
C3_Witness ==
    /\ Called("set")
    /\ Len(PreEnts) >= 2
    /\ PreEnts[1][1] = last.arg[1]
    /\ PreEnts[1][2] # last.arg[2]
    /\ ~PreObj._array.null

\* C7: after sweep the entries left are those the predicate does not hold of,
\* in their old order; the number returned is the number of entries it held
\* of; when that is positive both snapshots are discarded.
Holds(fn, e) == CallPred(last.pre, fn, e[2], e[1])
Kept(e) == ~Holds(last.arg, e)

C7_SweepRemovesMatching ==
    Called("sweep") =>
        /\ PostEnts = SelectSeq(PreEnts, Kept)
        /\ last.ret = RNum(Cardinality({i \in 1..Len(PreEnts) : Holds(last.arg, PreEnts[i])}))
        /\ last.ret.n > 0 => CachesNull(PostObj)

\* sweep removed two neighbours and left an entry, with snapshots in place before.
C7_Witness ==
    /\ Called("sweep")
    /\ Len(PostEnts) >= 1
    /\ \E i \in 1..(Len(PreEnts) - 1) : Holds(last.arg, PreEnts[i]) /\ Holds(last.arg, PreEnts[i + 1])
    /\ ~PreObj._array.null
    /\ ~PreObj._keyArray.null

\* C8: sort keeps the set of pairs, orders them by the comparator, keeps the
\* order of entries that compare equal, discards both snapshots (so the next
\* array()/keyArray() rebuilds), and without a comparator orders by ascending
\* value.
Rank(fn, a, b) == CallCmp(fn, a[2], b[2], a[1], b[1])
PosIn(ents, e) == CHOOSE i \in 1..Len(ents) : ents[i] = e

C8_SortStable ==
    Called("sort") =>
        /\ Len(PostEnts) = Len(PreEnts)
        /\ {PostEnts[i] : i \in 1..Len(PostEnts)} = {PreEnts[i] : i \in 1..Len(PreEnts)}
        /\ \A i, j \in 1..Len(PostEnts) : i < j => Rank(last.arg, PostEnts[i], PostEnts[j]) <= 0
        /\ \A i, j \in 1..Len(PreEnts) :
              i < j /\ Rank(last.arg, PreEnts[i], PreEnts[j]) = 0
                 => PosIn(PostEnts, PreEnts[i]) < PosIn(PostEnts, PreEnts[j])
        /\ CachesNull(PostObj)
        /\ ArrayStale(heap, last.recv) /\ KeyArrayStale(heap, last.recv)
        /\ last.arg = DefaultCmp =>
              \A i, j \in 1..Len(PostEnts) : i < j => PostEnts[i][2] <= PostEnts[j][2]
        /\ last.ret = RRef(last.recv)

\* sort moved entries, two of which compare equal, with snapshots in place before.
C8_Witness ==
    /\ Called("sort")
    /\ PostEnts # PreEnts
    /\ Len(PreEnts) >= 3
    /\ \E i, j \in 1..Len(PreEnts) : i < j /\ Rank(last.arg, PreEnts[i], PreEnts[j]) = 0
    /\ ~PreObj._array.null
    /\ ~PreObj._keyArray.null

\* C9: with an initial value reduce is the left fold of fn over all entries
\* from that value; without one, on a non-empty collection, the left fold over
\* the entries after the first from the first value; without one on an empty
\* collection it raises an error and leaves the collection as it was.
RECURSIVE FoldLeft(_, _, _)
FoldLeft(ents, fn, seed) ==
    IF ents = <<>> THEN seed
    ELSE LET e == ents[Len(ents)]
         IN  CallReducer(fn, FoldLeft(SubSeq(ents, 1, Len(ents) - 1), fn, seed), e[2], e[1])

C9_ReduceLeftFold ==
    Called("reduce") =>
        LET fn == last.arg[1]
            init == last.arg[2]
        IN  /\ init.given => last.ret = RVal(FoldLeft(PreEnts, fn, init.v))
            /\ ~init.given /\ PreEnts # <<>> =>
                  last.ret = RVal(FoldLeft(Tail(PreEnts), fn, PreEnts[1][2]))
            /\ ~init.given /\ PreEnts = <<>> => last.ret.kind = "throw" /\ heap = last.pre
            /\ last.ret.kind = "throw" => ~init.given /\ PreEnts = <<>>

\* reduce without an initial value raised its error on an empty collection
\* that has a snapshot.
C9_Witness ==
    /\ Called("reduce")
    /\ last.ret.kind = "throw"
    /\ ~PostObj._array.null

\* reduce without an initial value folded three entries.
C9_FoldWitness ==
    /\ Called("reduce")
    /\ ~last.arg[2].given
    /\ Len(PreEnts) >= 3
    /\ last.arg[1].kind = "shift"

\* C4: the combinators and lookups that do not mutate leave every collection
\* the caller holds, the receiver and the arguments, as it was: entries and
\* both snapshots.
NonMutating ==
    {"has", "get", "find", "findKey", "filter", "partition", "map", "mapValues", "flatMap",
     "some", "every", "reduce", "clone", "concat", "equals", "intersect", "difference", "sorted"}

C4_ReadsLeaveCollections == last.op \in NonMutating => heap = last.pre

HasSnapshots(o) == ~o._array.null /\ ~o._keyArray.null /\ o.entries # <<>>

\* concat of the receiver with itself and the other collection, all snapshots
\* in place.
C4_Witness ==
    /\ Called("concat")
    /\ last.arg = <<"this", "other">>
    /\ HasSnapshots(last.pre["this"])
    /\ HasSnapshots(last.pre["other"])

\* C5 (as claimed): what array(), keyArray(), last() and lastKey() return
\* is decided by the entries alone, whatever a caller did to the arrays it was
\* handed before.
C5_CallerCannotChangeViews ==
    /\ Called("array") => last.ret.arr = ValuesOf(PostEnts)
    /\ Called("keyArray") => last.ret.arr = KeysOf(PostEnts)
    /\ (Called("last") /\ ~last.arg.given /\ PostEnts # <<>>) =>
          last.ret = RVal(PostEnts[Len(PostEnts)][2])
    /\ (Called("lastKey") /\ ~last.arg.given /\ PostEnts # <<>>) =>
          last.ret = RVal(PostEnts[Len(PostEnts)][1])

\* C6 (as claimed): random(n) and randomKey(n) with 0 < n <= size return n
\* pairwise different elements of the collection and change nothing of it.
RandomCase ==
    /\ last.op \in {"random", "randomKey"}
    /\ last.arg.given
    /\ 0 < last.arg.n
    /\ last.arg.n <= Len(PreEnts)

ViewOf(ents) == IF last.op = "random" THEN ValuesOf(ents) ELSE KeysOf(ents)

C6_RandomDistinctUnchanged ==
    RandomCase =>
        /\ Len(last.ret.arr) = last.arg.n
        /\ \A i, j \in 1..Len(last.ret.arr) : i # j => last.ret.arr[i] # last.ret.arr[j]
        /\ \A i \in 1..Len(last.ret.arr) : \E j \in 1..Len(PreEnts) : last.ret.arr[i] = ViewOf(PreEnts)[j]
        /\ heap = last.pre

\* C6 (amended): the n elements come from n different entries; entries are
\* unchanged; the snapshot of the other view is unchanged and the snapshot of
\* the sampled view holds the current view.
C6_RandomSample ==
    RandomCase =>
        /\ Len(last.ret.arr) = last.arg.n
        /\ \E f \in [1..last.arg.n -> 1..Len(PreEnts)] :
              /\ \A i, j \in 1..last.arg.n : i # j => f[i] # f[j]
              /\ \A i \in 1..last.arg.n : last.ret.arr[i] = ViewOf(PreEnts)[f[i]]
        /\ last.ret.obj = "fresh"
        /\ PostEnts = PreEnts
        /\ Called("random") =>
              /\ PostObj._array = Arr(ValuesOf(PreEnts))
              /\ PostObj._keyArray = PreObj._keyArray
        /\ Called("randomKey") =>
              /\ PostObj._keyArray = Arr(KeysOf(PreEnts))
              /\ PostObj._array = PreObj._array

\* random(2) returned the same value twice, and built the value snapshot.
C6_Witness ==
    /\ Called("random")
    /\ RandomCase
    /\ last.arg.n = 2
    /\ last.ret.arr[1] = last.ret.arr[2]
    /\ PreObj._array.null
    /\ Len(PreEnts) = 3

\* C10: A.intersect(B) is a new collection that holds the entries of B whose
\* key is a key of A, in B's order.
KeySet(ents) == {ents[i][1] : i \in 1..Len(ents)}
InReceiver(e) == e[1] \in KeySet(PreEnts)

C10_IntersectFromArgument ==
    Called("intersect") =>
        /\ last.ret.kind = "coll"
        /\ last.ret.obj.entries = SelectSeq(last.pre[last.arg].entries, InReceiver)
        /\ KeySet(last.ret.obj.entries) = KeySet(PreEnts) \cap KeySet(last.pre[last.arg].entries)

\* an intersection of two keys that A and B hold in different orders and with
\* different values.
C10_Witness ==
    /\ Called("intersect")
    /\ last.arg = "other"
    /\ Len(last.ret.obj.entries) = 2
    /\ KeysOf(last.ret.obj.entries) # KeysOf(PreEnts)
    /\ ValuesOf(last.ret.obj.entries) # ValuesOf(PreEnts)
    /\ PreEnts[1][2] # last.pre["other"].entries[2][2]

\* C11: A.difference(B) is a new collection that holds the entries of B whose
\* key is not a key of A, in B's order, followed by the entries of A whose key
\* is not a key of B, in A's order, each with its own value; its size is
\* |A \ B| + |B \ A|.
ArgEnts == last.pre[last.arg].entries
NotInReceiver(e) == e[1] \notin KeySet(PreEnts)
NotInArgument(e) == e[1] \notin KeySet(ArgEnts)

C11_DifferenceArgumentFirst ==
    Called("difference") =>
        /\ last.ret.kind = "coll"
        /\ last.ret.obj.entries = SelectSeq(ArgEnts, NotInReceiver) \o SelectSeq(PreEnts, NotInArgument)
        /\ Len(last.ret.obj.entries) = Cardinality(KeySet(PreEnts) \ KeySet(ArgEnts))
                                         + Cardinality(KeySet(ArgEnts) \ KeySet(PreEnts))

\* a difference where each of A and B has a key that the other has not.
C11_Witness ==
    /\ Called("difference")
    /\ last.arg = "other"
    /\ Len(PreEnts) = 1
    /\ Len(ArgEnts) = 1
    /\ Len(last.ret.obj.entries) = 2
    /\ last.ret.obj.entries[1] = ArgEnts[1]
    /\ last.ret.obj.entries[2] = PreEnts[1]
    /\ ArgEnts[1][1] \notin KeySet(PreEnts)
    /\ PreEnts[1][1] \notin KeySet(ArgEnts)

\* C12: A.equals(B) is true exactly when A and B have the same size and every
\* key of A is a key of B with an equal value, whatever the two orders; so
\* A.equals(B) = B.equals(A), and A.equals(A) is true.
SameEntries(a, b) ==
    /\ Len(a) = Len(b)
    /\ \A i \in 1..Len(a) : \E j \in 1..Len(b) : a[i] = b[j]

C12_EqualsEntrySets ==
    (Called("equals") /\ last.arg # NullRef) =>
        /\ last.ret = RBool(SameEntries(PreEnts, ArgEnts))
        /\ last.ret = Equals(last.pre, last.arg, last.recv).ret
        /\ Equals(last.pre, last.recv, last.recv).ret = RBool(TRUE)
        /\ heap = last.pre

\* two collections of the same size that are not equal, and two equal ones
\* that hold their entries in different orders.
C12_Witness ==
    /\ Called("equals")
    /\ last.arg = "other"
    /\ Len(PreEnts) = 2
    /\ PreEnts # ArgEnts
    /\ last.ret = RBool(TRUE)

\* C13: with 0 <= n <= size, first(n) on the collection built from the pairs P
\* (distinct keys) equals last(n) on the collection built from the reverse of
\* P.  As stated, this is what the code does not do:
Mirror(r) == IF r = "this" THEN "other" ELSE "this"
Reversed(s) == [i \in 1..Len(s) |-> s[Len(s) + 1 - i]]
SymCase ==
    /\ Called("first")
    /\ last.arg.given
    /\ last.arg.n >= 0
    /\ last.arg.n <= Len(PreEnts)
    /\ last.pre[Mirror(last.recv)].entries = Reversed(PreEnts)

C13_FirstIsLastOfReverse ==
    SymCase => last.ret = Last(last.pre, Mirror(last.recv), last.arg).ret

\* C13, amended: first(n) on the collection built from P holds the values that
\* last(n) returns on the collection built from the reverse of P, in the
\* opposite order.
C13_FirstIsReversedLastOfReverse ==
    SymCase =>
        /\ last.ret.kind = "arr"
        /\ Last(last.pre, Mirror(last.recv), last.arg).ret.kind = "arr"
        /\ Len(last.ret.arr) = last.arg.n
        /\ last.ret.arr = Reversed(Last(last.pre, Mirror(last.recv), last.arg).ret.arr)

\* first(2) with two different values, on a collection of three.
C13_Witness ==
    /\ SymCase
    /\ last.arg.n = 2
    /\ Len(PreEnts) = 3
    /\ last.ret.arr[1] # last.ret.arr[2]

\* C14: first() and last() return the first and the last value, or nothing on
\* an empty collection; for n >= 0, first(n) returns the first min(n, size)
\* values and last(n) the last min(n, size) values, in insertion order; for
\* n < 0, first(n) is last(-n) and last(n) is first(-n); firstKey and lastKey
\* do the same over the keys.
HeadOf(s, n) == SubSeq(s, 1, Min(n, Len(s)))
TailOf(s, n) == SubSeq(s, Len(s) - Min(n, Len(s)) + 1, Len(s))
Positional(s, fromHead, a) ==
    IF ~a.given
    THEN IF s = <<>> THEN Undefined ELSE RVal(IF fromHead THEN s[1] ELSE s[Len(s)])
    ELSE IF (a.n >= 0) = fromHead
         THEN RArr(HeadOf(s, IF a.n >= 0 THEN a.n ELSE 0 - a.n))
         ELSE RArr(TailOf(s, IF a.n >= 0 THEN a.n ELSE 0 - a.n))
Negated(a) == Amount(0 - a.n)

C14_PositionalClampedSigned ==
    /\ Called("first") =>
          /\ last.ret = Positional(ValuesOf(PreEnts), TRUE, last.arg)
          /\ (last.arg.given /\ last.arg.n < 0) =>
                last.ret = Last(last.pre, last.recv, Negated(last.arg)).ret
    /\ Called("last") =>
          /\ last.ret = Positional(ValuesOf(PreEnts), FALSE, last.arg)
          /\ (last.arg.given /\ last.arg.n < 0) =>
                last.ret = First(last.pre, last.recv, Negated(last.arg)).ret
    /\ Called("firstKey") =>
          /\ last.ret = Positional(KeysOf(PreEnts), TRUE, last.arg)
          /\ (last.arg.given /\ last.arg.n < 0) =>
                last.ret = LastKey(last.pre, last.recv, Negated(last.arg)).ret
    /\ Called("lastKey") =>
          /\ last.ret = Positional(KeysOf(PreEnts), FALSE, last.arg)
          /\ (last.arg.given /\ last.arg.n < 0) =>
                last.ret = FirstKey(last.pre, last.recv, Negated(last.arg)).ret

\* first(-2) on three entries returns the last two values, which are not the
\* first two.
C14_Witness ==
    /\ Called("first")
    /\ last.arg.given
    /\ last.arg.n = 0 - 2
    /\ Len(PreEnts) = 3
    /\ last.ret.arr = TailOf(ValuesOf(PreEnts), 2)
    /\ last.ret.arr # HeadOf(ValuesOf(PreEnts), 2)

\* last(n) with n above the size returns every value.
C14_ClampWitness ==
    /\ Called("last")
    /\ last.arg.given
    /\ last.arg.n > Len(PreEnts)
    /\ Len(PreEnts) = 2
    /\ last.ret.arr = ValuesOf(PreEnts)

\* C15: R.concat(O1, ..., On) is a new collection whose order is R's order
\* followed by each new key in the order in which it is first met in O1, ...,
\* On, and whose value for a key is the one of the last collection among R, O1,
\* ..., On that holds the key; a key that is already present keeps its index.
RECURSIVE EntriesOfAll(_, _)
EntriesOfAll(cs, j) ==
    IF j > Len(cs) THEN <<>> ELSE last.pre[cs[j]].entries \o EntriesOfAll(cs, j + 1)
FirstAt(s, k) == CHOOSE i \in 1..Len(s) : s[i][1] = k /\ \A j \in 1..(i - 1) : s[j][1] # k
LastAt(s, k) == CHOOSE i \in 1..Len(s) : s[i][1] = k /\ \A j \in (i + 1)..Len(s) : s[j][1] # k
\* res holds one entry for each key of s, in the order of the keys' first
\* occurrences in s, each with the value of the key's last occurrence in s.
FirstPlaceLastValue(s, res) ==
    /\ KeySet(res) = KeySet(s)
    /\ Len(res) = Cardinality(KeySet(s))
    /\ \A i, j \in 1..Len(res) : i < j => FirstAt(s, res[i][1]) < FirstAt(s, res[j][1])
    /\ \A i \in 1..Len(res) : res[i][2] = s[LastAt(s, res[i][1])][2]

C15_ConcatOrderAndValues ==
    Called("concat") =>
        /\ last.ret.kind = "coll"
        /\ FirstPlaceLastValue(PreEnts \o EntriesOfAll(last.arg, 1), last.ret.obj.entries)
        /\ \A i \in 1..Len(PreEnts) : last.ret.obj.entries[i][1] = PreEnts[i][1]
        /\ heap = last.pre

\* a concat of two collections that gives a key of R another value and appends
\* a key R has not.
C15_Witness ==
    /\ Called("concat")
    /\ Len(last.arg) = 2
    /\ Len(PreEnts) >= 1
    /\ Len(last.ret.obj.entries) > Len(PreEnts)
    /\ last.ret.obj.entries[1][1] = PreEnts[1][1]
    /\ last.ret.obj.entries[1][2] # PreEnts[1][2]

\* C16: whatever the classes of the receiver and of the arguments, filter,
\* partition, mapValues, flatMap, clone, concat, intersect, difference and
\* sorted return collections of the receiver's class.
Builders ==
    {"filter", "partition", "mapValues", "flatMap", "clone", "concat",
     "intersect", "difference", "sorted"}

C16_ResultOfReceiverClass ==
    (last.op \in Builders) =>
        IF last.ret.kind = "colls"
        THEN \A i \in 1..Len(last.ret.objs) : last.ret.objs[i].cls = PreObj.cls
        ELSE last.ret.kind = "coll" /\ last.ret.obj.cls = PreObj.cls

\* C17: new Collection(pairs) holds one entry for each key of the input, in the
\* order of the keys' first occurrences, each with the value of the key's last
\* occurrence; new Collection() is empty; both snapshots are absent.
C17_ConstructionDeduplicates ==
    Called("new") =>
        /\ last.ret.kind = "coll"
        /\ last.arg.given => FirstPlaceLastValue(last.arg.ents, last.ret.obj.entries)
        /\ ~last.arg.given => last.ret.obj.entries = <<>>
        /\ UniqueKeys(last.ret.obj.entries)
        /\ CachesNull(last.ret.obj)
        /\ heap = last.pre

\* an input that repeats its first key after another key, with another value.
C17_Witness ==
    /\ Called("new")
    /\ last.arg.given
    /\ Len(last.arg.ents) = 3
    /\ last.arg.ents[1][1] = last.arg.ents[3][1]
    /\ last.arg.ents[1][2] # last.arg.ents[3][2]
    /\ last.arg.ents[1][1] # last.arg.ents[2][1]
    /\ last.ret.obj.entries = <<last.arg.ents[3], last.arg.ents[2]>>

\* C18: C.sorted(cmp) returns a new collection whose entries and order are
\* those C would have after C.sort(cmp); C's entries, order and snapshots stay
\* as they were, and the result is an object of its own, so that later changes
\* to it do not reach C.
C18_SortedIsSortOfClone ==
    Called("sorted") =>
        /\ last.ret.kind = "coll"
        /\ last.ret.obj.entries = Sort(last.pre, last.recv, last.arg).h[last.recv].entries
        /\ last.ret.obj.entries = Sort(Clone(last.pre, last.recv).h, Clone(last.pre, last.recv).ret.ref,
                                       last.arg).h[Clone(last.pre, last.recv).ret.ref].entries
        /\ CachesNull(last.ret.obj)
        /\ heap = last.pre

\* a sorted call that returns another order than the receiver's.
C18_Witness ==
    /\ Called("sorted")
    /\ Len(PreEnts) = 2
    /\ last.ret.obj.entries = <<PreEnts[2], PreEnts[1]>>
    /\ PostEnts = PreEnts

\* C19: in every state that set, delete, clear, sort, sweep and the reads
\* through the snapshots (array, keyArray, last, lastKey, random, randomKey)
\* can reach, a value snapshot that is present and as long as the size holds
\* the current values in insertion order, and a key snapshot that is present
\* and as long as the size holds the current keys in insertion order.
C19_LengthTestSound ==
    \A r \in DOMAIN heap :
        /\ (~heap[r]._array.null /\ Len(heap[r]._array.arr) = MapSize(heap, r))
              => heap[r]._array.arr = MapValues(heap, r)
        /\ (~heap[r]._keyArray.null /\ Len(heap[r]._keyArray.arr) = MapSize(heap, r))
              => heap[r]._keyArray.arr = MapKeys(heap, r)

\* a read through a value snapshot that was present and as long as the size,
\* on a collection whose two values differ.
C19_Witness ==
    /\ Called("last")
    /\ ~PreObj._array.null
    /\ Len(PreObj._array.arr) = Len(PreEnts)
    /\ Len(PreEnts) = 2
    /\ PreEnts[1][2] # PreEnts[2][2]
    /\ last.arg = Amount(1)
    /\ last.ret.arr = <<PreEnts[2][2]>>

\* C20: whichever of array() and keyArray() was called first and whatever
\* mutations came in between, the two views are aligned: each has size
\* elements and get(keyArray()[i]) is array()[i] for every index i.
C20_ViewsAligned ==
    /\ Called("array") =>
          LET keys == KeyArrayOf(heap, last.recv).ret.arr
          IN  /\ Len(keys) = MapSize(heap, last.recv)
              /\ Len(last.ret.arr) = MapSize(heap, last.recv)
              /\ \A i \in 1..MapSize(heap, last.recv) :
                    Get(heap, last.recv, keys[i]) = RVal(last.ret.arr[i])
    /\ Called("keyArray") =>
          LET values == ArrayOf(heap, last.recv).ret.arr
          IN  /\ Len(values) = MapSize(heap, last.recv)
              /\ Len(last.ret.arr) = MapSize(heap, last.recv)
              /\ \A i \in 1..MapSize(heap, last.recv) :
                    Get(heap, last.recv, last.ret.arr[i]) = RVal(values[i])

\* array() builds the value view of two entries with different values while
\* the key view built earlier is still held.
C20_Witness ==
    /\ Called("array")
    /\ PreObj._array.null
    /\ ~PreObj._keyArray.null
    /\ Len(PreEnts) = 2
    /\ last.ret.arr[1] # last.ret.arr[2]

====
